---- MODULE Spec2Model ----
(***************************************************************************)
(* Markov chain text generator (main.c): the hashed prefix index           *)
(* (statetab, hash, lookup, add_suffix), the chain builder (add, build)    *)
(* and the chain generator (generate).                                     *)
(*                                                                         *)
(* A token is a C string, modelled as the sequence of its character codes. *)
(* A run is one execution of main(); every per-run variable is a function  *)
(* over the runs of the behaviour.                                         *)
(***************************************************************************)
EXTENDS Integers, Sequences, FiniteSets, TLC

\* ---------------------------------------------------------------- constants
NPREF == 2
HASHSIZE == 4093
NONWORD == <<10>>
\* NULL pointer (a State * that points to no entry)
NULL == <<>>

\* ------------------------------------------------------------------- bounds
\* longest token stream drawn from Words
MaxLen == 3
\* largest nwords drawn for a stream of Streams
MaxWords == 3
\* largest value rand() returns
MaxRand == 1

\* ------------------------------------------------------------------- inputs
\* tokens "a", "b", "c"
Words == {<<97>>, <<98>>, <<99>>}
\* tokens "a", "b": the streams of the two-run specification
DetWords == {<<97>>, <<98>>}
\* the, quick, fox, the, lazy, fox
FoxCorpus ==
  << <<116, 104, 101>>, <<113, 117, 105, 99, 107>>, <<102, 111, 120>>,
     <<116, 104, 101>>, <<108, 97, 122, 121>>, <<102, 111, 120>> >>
FoxWords == 10
\* ab c a bc ab c: the prefixes (ab,c) and (a,bc) share a hash bucket
CollisionCorpus ==
  << <<97, 98>>, <<99>>, <<97>>, <<98, 99>>, <<97, 98>>, <<99>> >>

\* a aa a: the prefixes (a,aa) and (aa,a) are each other's swap and share a
\* hash bucket, their characters being the same in the same order
SwapCorpus == << <<97>>, <<97, 97>>, <<97>> >>
\* a b c and b a c
AbcCorpus == << <<97>>, <<98>>, <<99>> >>
BacCorpus == << <<98>>, <<97>>, <<99>> >>

\* a a a a: the prefix (a,a) is followed by a twice and then by the sentinel
RepeatCorpus == << <<97>>, <<97>>, <<97>>, <<97>> >>

SeqsUpTo(S, n) == UNION {[1..k -> S] : k \in 0..n}
Streams ==
  SeqsUpTo(Words, MaxLen)
    \cup {CollisionCorpus, SwapCorpus, AbcCorpus, BacCorpus, RepeatCorpus}
\* atoi(argv[2]) may be zero or negative
NWords == (0 - 1)..MaxWords
Inputs == (Streams \X NWords) \cup {<<FoxCorpus, FoxWords>>}
DetInputs == SeqsUpTo(DetWords, MaxLen) \X NWords
RandVals == 0..MaxRand

\* -------------------------------------------------------------------- state
VARIABLES
  input,     \* the token stream fscanf yields (shared by the runs)
  nwords,    \* the requested output length
  draws,     \* the values rand() returns for the seed, as far as drawn
  pc,        \* per run: "build", "generate" or "done"
  pos,       \* per run: number of tokens build has read
  bprefix,   \* per run: build's prefix[] window
  statetab,  \* per run: the hash table, bucket index -> chain of State
  gprefix,   \* per run: generate's prefix[] window
  i,         \* per run: generate's loop counter
  rpos,      \* per run: number of rand() calls made
  out,       \* per run: the tokens printed
  stop       \* per run: why generate's loop ended ("Running" until then)

vars == <<input, nwords, draws, pc, pos, bprefix, statetab, gprefix, i, rpos,
          out, stop>>

runs == DOMAIN pc

\* ------------------------------------------------------------- prefix index
\* unsigned 32-bit h = h * 31 + c, h held as two 16-bit limbs <<hi, lo>>
hashStep(h, c) ==
  LET lo == h[2] * 31 + c
  IN  <<(h[1] * 31 + (lo \div 65536)) % 65536, lo % 65536>>

RECURSIVE hashChars(_, _)
hashChars(h, p) ==
  IF p = <<>> THEN h ELSE hashChars(hashStep(h, Head(p)), Tail(p))

RECURSIVE hashWords(_, _, _)
hashWords(h, s, k) ==
  IF k > NPREF THEN h ELSE hashWords(hashChars(h, s[k]), s, k + 1)

\* h % HASHSIZE of the 32-bit h = hi * 65536 + lo
hash(s) ==
  LET h == hashWords(<<0, 0>>, s, 1)
  IN  ((h[1] % HASHSIZE) * (65536 % HASHSIZE) + h[2]) % HASHSIZE

strcmp(a, b) == IF a = b THEN 0 ELSE 1

\* statetab[h]: the chain of bucket h, head first; a NULL head is the empty chain
bucket(tab, h) == IF h \in DOMAIN tab THEN tab[h] ELSE <<>>

\* a store of the new head that loses the chain behind it (sp->next not set)
setBucketDrop(tab, h, chain) ==
  [x \in DOMAIN tab \cup {h} |-> IF x = h THEN <<chain[1]>> ELSE tab[x]]

\* statetab[h] = sp, with sp->next the old head
setBucket(tab, h, chain) ==
  [x \in DOMAIN tab \cup {h} |-> IF x = h THEN chain ELSE tab[x]]

\* a comparison that takes the prefix as a set of tokens, whatever their order
prefixMatchUnordered(prefix, stored) ==
  {prefix[k] : k \in 1..NPREF} = {stored[k] : k \in 1..NPREF}

\* a comparison of the prefixes as one run of characters, like the hash
prefixMatchConcat(prefix, stored) ==
  strcmp(prefix[1] \o prefix[2], stored[1] \o stored[2]) = 0

\* the inner loop of lookup: all NPREF positions compare equal
prefixMatch(prefix, stored) ==
  \A k \in 1..NPREF : strcmp(prefix[k], stored[k]) = 0

\* a scan that tests the head of the chain only (sp = sp->next forgotten)
findHeadOnly(chain, prefix) ==
  IF chain # <<>> /\ prefixMatch(prefix, chain[1].prefix) THEN 1 ELSE 0

\* the outer loop of lookup: position in the chain of the first match, 0 if none
find(chain, prefix) ==
  LET hits == {k \in 1..Len(chain) : prefixMatch(prefix, chain[k].prefix)}
  IN  IF hits = {} THEN 0 ELSE CHOOSE k \in hits : \A m \in hits : k <= m

\* a lookup that creates on a miss whatever the create flag says
lookupIgnoreCreate(tab, prefix, create) ==
  LET h == hash(prefix)
      k == find(bucket(tab, h), prefix)
  IN  IF k # 0
      THEN [tab |-> tab, sp |-> <<h, k>>]
      ELSE [tab |-> setBucket(tab, h,
                      <<[prefix |-> prefix, suffixes |-> <<>>]>> \o bucket(tab, h)),
            sp |-> <<h, 1>>]

\* lookup(prefix, create): the table afterwards and the State * returned,
\* a pointer being <<bucket, position in the chain>>
lookup(tab, prefix, create) ==
  LET h == hash(prefix)
      k == find(bucket(tab, h), prefix)
  IN  IF k # 0
      THEN [tab |-> tab, sp |-> <<h, k>>]
      ELSE IF create # 0
           THEN [tab |-> setBucket(tab, h,
                           <<[prefix |-> prefix, suffixes |-> <<>>]>> \o bucket(tab, h)),
                 sp |-> <<h, 1>>]
           ELSE [tab |-> tab, sp |-> NULL]

\* *sp
deref(tab, sp) == tab[sp[1]][sp[2]]

\* an add_suffix that drops the list it should link to (suf->next = NULL)
add_suffixReplace(tab, sp, suffix) ==
  [tab EXCEPT ![sp[1]][sp[2]].suffixes = <<suffix>>]

\* an add_suffix that links the new Suffix behind the last one of the list
add_suffixAppend(tab, sp, suffix) ==
  [tab EXCEPT ![sp[1]][sp[2]].suffixes = @ \o <<suffix>>]

\* an add_suffix that never stores the new Suffix in sp->suffixes
add_suffixUnlinked(tab, sp, suffix) == tab

\* add_suffix(sp, suffix): the new Suffix becomes the head of sp->suffixes
add_suffix(tab, sp, suffix) ==
  [tab EXCEPT ![sp[1]][sp[2]].suffixes = <<suffix>> \o @]

\* the memmove and the store of add: drop the oldest token, append suffix
shift(prefix, suffix) == SubSeq(prefix, 2, NPREF) \o <<suffix>>

\* an add that stores the new token without the memmove
addNoShift(tab, prefix, suffix) ==
  LET lk == lookup(tab, prefix, 1)
  IN  [tab |-> add_suffix(lk.tab, lk.sp, suffix),
       prefix |-> [prefix EXCEPT ![NPREF] = suffix]]

\* add(prefix, suffix): the table and the caller's window afterwards
add(tab, prefix, suffix) ==
  LET lk == lookup(tab, prefix, 1)
  IN  [tab |-> add_suffix(lk.tab, lk.sp, suffix),
       prefix |-> shift(prefix, suffix)]

\* prefix[i] = NONWORD for every i
startPrefix == [k \in 1..NPREF |-> NONWORD]

\* ---------------------------------------------------------------- generator
\* a loop test that lets the counter reach nwords
loopCondInclusive(k, n) == k <= n

\* a loop that tests after the body (do ... while): the body runs at least once
loopCondDoWhile(k, n) == k < n \/ k = 0

\* for (...; i < nwords; ...)
loopCond(k, n) == k < n

\* the counting walk over sp->suffixes
count(suffixes) == Len(suffixes)

\* a walk that starts counting at 1: one step short for every r > 0
selectShort(suffixes, r) == suffixes[IF r = 0 THEN 1 ELSE r]

\* the walk of r steps from the head of sp->suffixes
select(suffixes, r) == suffixes[r + 1]

\* a sentinel test against the empty string
isNonwordEmpty(word) == strcmp(word, <<>>) = 0

\* strcmp(suf->word, NONWORD) == 0
isNonword(word) == strcmp(word, NONWORD) = 0

\* a slide that stores the new word without moving the old one down
slideNoShift(prefix, word) == <<prefix[1], word>>

\* prefix[0] = prefix[1]; prefix[1] = suf->word
slide(prefix, word) == <<prefix[2], word>>

\* a rand() that is seeded again before the call: any value comes back
randReseeded(run, raw) == raw \in RandVals

\* rand(): the next value of the sequence the seed fixes; a value not drawn
\* before by any run is free
rand(run, raw) ==
  /\ raw \in RandVals
  /\ rpos[run] < Len(draws) => raw = draws[rpos[run] + 1]

\* ------------------------------------------------------------------ actions
InitRuns(R, I) ==
  /\ \E inp \in I : input = inp[1] /\ nwords = inp[2]
  /\ draws = <<>>
  /\ pc = [r \in R |-> "build"]
  /\ pos = [r \in R |-> 0]
  /\ bprefix = [r \in R |-> startPrefix]
  /\ statetab = [r \in R |-> <<>>]
  /\ gprefix = [r \in R |-> startPrefix]
  /\ i = [r \in R |-> 0]
  /\ rpos = [r \in R |-> 0]
  /\ out = [r \in R |-> <<>>]
  /\ stop = [r \in R |-> "Running"]

\* one execution of main
Init == InitRuns({1}, Inputs)

\* two executions of main on the same file, nwords and seed
InitDet == InitRuns({1, 2}, DetInputs)

\* build: fscanf reads one more token, add(prefix, strdup_safe(buf))
Add(run) ==
  /\ pc[run] = "build"
  /\ pos[run] < Len(input)
  /\ LET a == add(statetab[run], bprefix[run], input[pos[run] + 1])
     IN  /\ statetab' = [statetab EXCEPT ![run] = a.tab]
         /\ bprefix' = [bprefix EXCEPT ![run] = a.prefix]
  /\ pos' = [pos EXCEPT ![run] = @ + 1]
  /\ UNCHANGED <<input, nwords, draws, pc, gprefix, i, rpos, out, stop>>

\* build: fscanf returns EOF, add(prefix, NONWORD); main then enters generate,
\* which fills its window with NONWORD and starts its loop at i = 0
BuildEnd(run) ==
  /\ pc[run] = "build"
  /\ pos[run] = Len(input)
  /\ LET a == add(statetab[run], bprefix[run], NONWORD)
     IN  /\ statetab' = [statetab EXCEPT ![run] = a.tab]
         /\ bprefix' = [bprefix EXCEPT ![run] = a.prefix]
  /\ pc' = [pc EXCEPT ![run] = "generate"]
  /\ gprefix' = [gprefix EXCEPT ![run] = startPrefix]
  /\ i' = [i EXCEPT ![run] = 0]
  /\ UNCHANGED <<input, nwords, draws, pos, rpos, out, stop>>

\* a continue where the break should be: the reason is noted, the loop goes on
BreakContinue(run, why) ==
  /\ stop' = [stop EXCEPT ![run] = why]
  /\ UNCHANGED <<gprefix, i, out, pc>>

\* a break out of generate's loop, the final printf("\n") and the return
Break(run, why) ==
  /\ stop' = [stop EXCEPT ![run] = why]
  /\ pc' = [pc EXCEPT ![run] = "done"]
  /\ UNCHANGED <<gprefix, i, out>>

\* one iteration of generate's loop
GenStep(run) ==
  /\ pc[run] = "generate"
  /\ loopCond(i[run], nwords)
  /\ LET lk == lookup(statetab[run], gprefix[run], 0)
     IN  /\ statetab' = [statetab EXCEPT ![run] = lk.tab]
         /\ IF lk.sp = NULL
            THEN Break(run, "StoppedByMissingEntry") /\ UNCHANGED <<draws, rpos>>
            ELSE LET suffixes == deref(lk.tab, lk.sp).suffixes
                     n == count(suffixes)
                 IN  IF n = 0
                     THEN Break(run, "StoppedByEmptyBag") /\ UNCHANGED <<draws, rpos>>
                     ELSE \E raw \in RandVals :
                            /\ rand(run, raw)
                            /\ draws' = IF rpos[run] < Len(draws)
                                        THEN draws ELSE Append(draws, raw)
                            /\ rpos' = [rpos EXCEPT ![run] = @ + 1]
                            /\ LET word == select(suffixes, raw % n)
                               IN  IF isNonword(word)
                                   THEN Break(run, "StoppedBySentinel")
                                   ELSE /\ out' = [out EXCEPT ![run] = Append(@, word)]
                                        /\ gprefix' = [gprefix EXCEPT
                                                         ![run] = slide(@, word)]
                                        /\ i' = [i EXCEPT ![run] = @ + 1]
                                        /\ UNCHANGED <<pc, stop>>
  /\ UNCHANGED <<input, nwords, pos, bprefix>>

\* generate's loop test fails: printf("\n") and return
GenEnd(run) ==
  /\ pc[run] = "generate"
  /\ ~loopCond(i[run], nwords)
  /\ stop' = [stop EXCEPT ![run] = "StoppedByLengthLimit"]
  /\ pc' = [pc EXCEPT ![run] = "done"]
  /\ UNCHANGED <<input, nwords, draws, pos, bprefix, statetab, gprefix, i, rpos, out>>

Next ==
  \/ \E run \in runs : Add(run)
  \/ \E run \in runs : BuildEnd(run)
  \/ \E run \in runs : GenStep(run)
  \/ \E run \in runs : GenEnd(run)

Spec == Init /\ [][Next]_vars

SpecDet == InitDet /\ [][Next]_vars

\* ------------------------------------------------------- derived quantities
\* the State * values of a table
Ptrs(tab) == UNION {{<<h, k>> : k \in 1..Len(tab[h])} : h \in DOMAIN tab}

\* the prefix keys stored in a table
Keys(tab) == {deref(tab, p).prefix : p \in Ptrs(tab)}

\* number of occurrences of w in a sequence
Occ(seq, w) == Cardinality({k \in 1..Len(seq) : seq[k] = w})

RECURSIVE SumLen(_, _)
\* total number of suffix occurrences held by the entries P of a table
SumLen(tab, P) ==
  IF P = {} THEN 0
  ELSE LET p == CHOOSE x \in P : TRUE
       IN  Len(deref(tab, p).suffixes) + SumLen(tab, P \ {p})

\* the tokens a run has passed to add so far
Fed(run) ==
  IF pc[run] = "build" THEN SubSeq(input, 1, pos[run]) ELSE input \o <<NONWORD>>

\* the stream fed so far, padded in front with NPREF sentinels
Padded(run) == startPrefix \o Fed(run)

\* the window that held immediately before the j-th token fed
WindowAt(run, j) == SubSeq(Padded(run), j, j + NPREF - 1)

\* how often w follows the prefix P in the padded stream
Followers(run, P, w) ==
  Cardinality({j \in 1..Len(Fed(run)) :
                 WindowAt(run, j) = P /\ Padded(run)[j + NPREF] = w})

\* every token that can occur as a suffix
Tokens ==
  Words \cup {NONWORD} \cup {FoxCorpus[k] : k \in 1..Len(FoxCorpus)}
        \cup {CollisionCorpus[k] : k \in 1..Len(CollisionCorpus)}
        \cup {SwapCorpus[k] : k \in 1..Len(SwapCorpus)}

built(run) == pc[run] # "build"
done(run) == pc[run] = "done"

\* ------------------------------------------------------------------ claims

\* C1: at every point during and after build, no two State entries of the
\* index have prefix tuples that are equal position by position.
C1_UniquePrefix ==
  \A run \in runs :
    \A p, q \in Ptrs(statetab[run]) :
      p # q =>
        \E k \in 1..NPREF :
          deref(statetab[run], p).prefix[k] # deref(statetab[run], q).prefix[k]

\* an add step found an existing key again, in a bucket that chains two entries
C1_Witness ==
  \E run \in runs :
    /\ \E p \in Ptrs(statetab[run]) : p[2] = 2
    /\ \E p \in Ptrs(statetab[run]) : Len(deref(statetab[run], p).suffixes) >= 2

\* C2: every token fed to add is recorded exactly once, as a suffix of the
\* window that held immediately before it: for every prefix the bag equals,
\* with multiplicity, the tokens that follow it in the sentinel-padded stream,
\* every window of the stream has an entry, and the total number of suffix
\* occurrences is the number of tokens fed (k + 1 once build has finished).
C2_BagsAreFollowers ==
  \A run \in runs :
    LET tab == statetab[run]
    IN  /\ \A p \in Ptrs(tab) : \A w \in Tokens :
             Occ(deref(tab, p).suffixes, w) = Followers(run, deref(tab, p).prefix, w)
        /\ \A j \in 1..Len(Fed(run)) : WindowAt(run, j) \in Keys(tab)
        /\ SumLen(tab, Ptrs(tab)) = Len(Fed(run))
        /\ built(run) => SumLen(tab, Ptrs(tab)) = Len(input) + 1
        /\ pc[run] = "build" => bprefix[run] = WindowAt(run, Len(Fed(run)) + 1)

\* build has finished on a stream of three tokens and a bag holds two suffixes
C2_Witness ==
  \E run \in runs :
    /\ built(run)
    /\ Len(input) >= 3
    /\ \E p \in Ptrs(statetab[run]) : Len(deref(statetab[run], p).suffixes) >= 2

\* the prefixes lookup is probed with: stored ones and ones never stored
Probes == (Words \cup {NONWORD}) \X (Words \cup {NONWORD})

\* C3: generation never mutates the index: lookup without the create flag
\* leaves the table as it is, for stored and for never-stored prefixes, and
\* returns NULL exactly for the never-stored ones; and once build has finished
\* no step changes the entries, their keys or their bags.
C3_LookupPure ==
  \A run \in runs : \A P \in Probes :
    /\ lookup(statetab[run], P, 0).tab = statetab[run]
    /\ lookup(statetab[run], P, 0).sp = NULL <=> P \notin Keys(statetab[run])

C3_Frame ==
  \A run \in runs : built(run) => statetab'[run] = statetab[run]

C3_GenerateReadOnly == [](C3_LookupPure) /\ [][C3_Frame]_vars

\* generate has returned after emitting two tokens, and some probed prefix
\* was never stored
C3_Witness ==
  \E run \in runs :
    /\ done(run)
    /\ Len(out[run]) >= 2
    /\ \E P \in Probes : P \notin Keys(statetab[run])

\* number of loop iterations generate has run: the completed ones and the one
\* a break ended
iters(run) ==
  i[run] + (IF stop[run] \in {"StoppedByMissingEntry", "StoppedByEmptyBag",
                              "StoppedBySentinel"} THEN 1 ELSE 0)

Max(a, b) == IF a >= b THEN a ELSE b

C4_Bounded ==
  \A run \in runs :
    /\ iters(run) <= Max(nwords, 0)
    /\ Len(out[run]) <= i[run]
    /\ Len(out[run]) <= Max(nwords, 0)

\* every step that leaves a run inside generate's loop is a completed
\* iteration: it emits one token and moves the counter one closer to nwords
C4_Variant ==
  \A run \in runs :
    pc[run] = "generate" /\ pc'[run] = "generate" =>
      \/ /\ i'[run] = i[run] + 1
         /\ i'[run] <= nwords
         /\ Len(out'[run]) = Len(out[run]) + 1
      \/ /\ i'[run] = i[run]
         /\ out'[run] = out[run]
         /\ gprefix'[run] = gprefix[run]
         /\ rpos'[run] = rpos[run]

\* a run inside generate either has iterations left or is at the length limit
C4_Progress ==
  \A run \in runs :
    pc[run] = "generate" =>
      /\ 0 <= i[run]
      /\ loopCond(i[run], nwords) <=> i[run] < Max(nwords, 0)

\* C4: generate always terminates: the loop runs at most max_tokens
\* iterations (none when max_tokens is negative) and emits at most max_tokens
\* tokens; every iteration either leaves the loop or moves the counter one
\* step closer to max_tokens, so the loop cannot go on for ever even on a
\* chain that can cycle without drawing the sentinel.
C4_Terminates == [](C4_Bounded /\ C4_Progress) /\ [][C4_Variant]_vars

\* the length limit stopped a chain that could have gone on: the last window
\* still has a suffix other than the sentinel
C4_Witness ==
  \E run \in runs :
    /\ stop[run] = "StoppedByLengthLimit"
    /\ nwords >= 3
    /\ Len(out[run]) = nwords
    /\ LET lk == lookup(statetab[run], gprefix[run], 0)
       IN  /\ lk.sp # NULL
           /\ \E k \in 1..Len(deref(statetab[run], lk.sp).suffixes) :
                deref(statetab[run], lk.sp).suffixes[k] # NONWORD

\* C5: generate never emits the sentinel token.
C5_NoSentinelOut ==
  \A run \in runs : \A k \in 1..Len(out[run]) : out[run][k] # NONWORD

\* the sentinel was selected after tokens had been emitted, and the run stopped
C5_Witness ==
  \E run \in runs : stop[run] = "StoppedBySentinel" /\ out[run] # <<>>

\* the index holds the single association (sentinel,...,sentinel) -> {sentinel}
OnlySentinelEntry(run) ==
  /\ Cardinality(Ptrs(statetab[run])) = 1
  /\ \A p \in Ptrs(statetab[run]) :
       /\ deref(statetab[run], p).prefix = startPrefix
       /\ deref(statetab[run], p).suffixes = <<NONWORD>>

\* C6 as stated: on the empty stream the index holds only sentinel ->
\* {sentinel} and generate, for any output_length, emits nothing and stops on
\* the sentinel in its first iteration.
C6_Original ==
  \A run \in runs :
    input = <<>> /\ done(run) =>
      /\ OnlySentinelEntry(run)
      /\ out[run] = <<>>
      /\ stop[run] = "StoppedBySentinel"
      /\ iters(run) = 1

\* C6 amended: on the empty stream the index holds only sentinel ->
\* {sentinel} and generate emits nothing for any output_length; it stops on
\* the sentinel in its first iteration when output_length >= 1, and runs no
\* iteration at all (length limit) when output_length <= 0.
C6_EmptyInput ==
  \A run \in runs :
    input = <<>> =>
      /\ built(run) => OnlySentinelEntry(run)
      /\ out[run] = <<>>
      /\ done(run) /\ nwords >= 1 =>
           stop[run] = "StoppedBySentinel" /\ iters(run) = 1
      /\ done(run) /\ nwords <= 0 =>
           stop[run] = "StoppedByLengthLimit" /\ iters(run) = 0

\* generate stopped on the sentinel after training on the empty stream
C6_Witness ==
  \E run \in runs :
    input = <<>> /\ done(run) /\ stop[run] = "StoppedBySentinel"

\* the suffix bag lookup finds for a prefix, head first (empty if none)
BagOf(tab, P) ==
  LET lk == lookup(tab, P, 0)
  IN  IF lk.sp = NULL THEN <<>> ELSE deref(tab, lk.sp).suffixes

the == <<116, 104, 101>>
quick == <<113, 117, 105, 99, 107>>
fox == <<102, 111, 120>>
lazy == <<108, 97, 122, 121>>

\* C7: training on the, quick, fox, the, lazy, fox gives the bags
\* (the,quick) -> {fox}, (quick,fox) -> {the}, (fox,the) -> {lazy},
\* (the,lazy) -> {fox}, (lazy,fox) -> {sentinel}; generating with
\* output_length = 10 emits exactly the, quick, fox, the, lazy, fox and stops
\* on the sentinel, whatever is drawn.
C7_FoxScenario ==
  \A run \in runs :
    input = FoxCorpus /\ built(run) =>
      /\ BagOf(statetab[run], <<the, quick>>) = <<fox>>
      /\ BagOf(statetab[run], <<quick, fox>>) = <<the>>
      /\ BagOf(statetab[run], <<fox, the>>) = <<lazy>>
      /\ BagOf(statetab[run], <<the, lazy>>) = <<fox>>
      /\ BagOf(statetab[run], <<lazy, fox>>) = <<NONWORD>>
      /\ \A k \in 1..Len(out[run]) : out[run][k] = FoxCorpus[k]
      /\ done(run) /\ nwords = FoxWords =>
           /\ out[run] = <<the, quick, fox, the, lazy, fox>>
           /\ stop[run] = "StoppedBySentinel"

\* the fox corpus has been generated in full with a draw other than 0 made
C7_Witness ==
  \E run \in runs :
    /\ input = FoxCorpus
    /\ done(run)
    /\ Len(out[run]) = 6
    /\ \E k \in 1..Len(draws) : draws[k] # 0

\* C8: generate called with output_length <= 0 runs no iteration, emits
\* nothing, makes no draw, and ends by the length limit.
C8_NonPositiveLength ==
  \A run \in runs :
    nwords <= 0 =>
      /\ out[run] = <<>>
      /\ i[run] = 0
      /\ rpos[run] = 0
      /\ stop[run] \in {"Running", "StoppedByLengthLimit"}
      /\ pc[run] = "generate" => ~loopCond(i[run], nwords)
      /\ done(run) => stop[run] = "StoppedByLengthLimit"

\* generate returned for a negative output_length on a non-empty corpus
C8_Witness ==
  \E run \in runs : nwords < 0 /\ input # <<>> /\ done(run)

wA == <<97>>
wB == <<98>>
wC == <<99>>
wAA == <<97, 97>>
SwapProbes == (Words \cup {NONWORD, wAA}) \X (Words \cup {NONWORD, wAA})

\* C9: prefix keys are order-sensitive: building from a b c stores (a,b) and
\* not (b,a), building from b a c stores (b,a) and not (a,b); and a lookup of
\* (x,y) with x # y returns the entry whose key is (x,y) or none, never the
\* entry stored under (y,x).
C9_OrderSensitive ==
  \A run \in runs :
    /\ input = AbcCorpus /\ built(run) =>
         /\ Keys(statetab[run]) = {startPrefix, <<NONWORD, wA>>, <<wA, wB>>, <<wB, wC>>}
         /\ <<wB, wA>> \notin Keys(statetab[run])
    /\ input = BacCorpus /\ built(run) =>
         /\ Keys(statetab[run]) = {startPrefix, <<NONWORD, wB>>, <<wB, wA>>, <<wA, wC>>}
         /\ <<wA, wB>> \notin Keys(statetab[run])
    /\ \A P \in SwapProbes :
         P[1] # P[2] =>
           LET lk == lookup(statetab[run], P, 0)
           IN  /\ lk.sp # NULL => deref(statetab[run], lk.sp).prefix = P
               /\ lk.sp # NULL => deref(statetab[run], lk.sp).prefix # <<P[2], P[1]>>
               /\ lk.sp = NULL <=> P \notin Keys(statetab[run])

\* a prefix and its swap are both stored, in the same bucket, and lookup
\* returns a different entry for each
C9_Witness ==
  \E run \in runs :
    /\ hash(<<wA, wAA>>) = hash(<<wAA, wA>>)
    /\ lookup(statetab[run], <<wA, wAA>>, 0).sp # NULL
    /\ lookup(statetab[run], <<wAA, wA>>, 0).sp # NULL
    /\ lookup(statetab[run], <<wA, wAA>>, 0).sp # lookup(statetab[run], <<wAA, wA>>, 0).sp

Positions(run, P) == {j \in 1..Len(Fed(run)) : WindowAt(run, j) = P}

\* the n-th token inserted as a suffix of P, in the order of the stream
NthInserted(run, P, n) ==
  LET j == CHOOSE x \in Positions(run, P) :
             Cardinality({y \in Positions(run, P) : y <= x}) = n
  IN  Padded(run)[j + NPREF]

\* C11: selection is uniform over stored occurrences: for every entry with
\* bag size m >= 1 every value rand() % m lies in [0, m), every r in [0, m)
\* selects a suffix of the bag (the walk stays inside the list), and a token
\* inserted k times as a suffix of that prefix is selected by exactly k of the
\* m values of r, so that distinct r select distinct occurrences.
C11_UniformOverOccurrences ==
  \A run \in runs : \A p \in Ptrs(statetab[run]) :
    LET e == deref(statetab[run], p)
        m == count(e.suffixes)
    IN  m >= 1 =>
          /\ \A raw \in RandVals : raw % m \in 0..(m - 1)
          /\ \A r \in 0..(m - 1) :
               /\ r + 1 \in DOMAIN e.suffixes
               /\ Occ(e.suffixes, select(e.suffixes, r)) >= 1
          /\ \A w \in Tokens :
               Cardinality({r \in 0..(m - 1) : select(e.suffixes, r) = w})
                 = Followers(run, e.prefix, w)

\* a bag of three occurrences holds the same token twice
C11_Witness ==
  \E run \in runs : \E p \in Ptrs(statetab[run]) :
    LET e == deref(statetab[run], p)
    IN  /\ Len(e.suffixes) = 3
        /\ \E w \in Tokens : Followers(run, e.prefix, w) = 2

\* C12 as stated: after s1, ..., sm have been inserted in that order as
\* suffixes of one prefix, draw value r selects s(r+1).
C12_Original ==
  \A run \in runs : \A p \in Ptrs(statetab[run]) :
    LET e == deref(statetab[run], p)
    IN  \A r \in 0..(count(e.suffixes) - 1) :
          select(e.suffixes, r) = NthInserted(run, e.prefix, r + 1)

\* C12 amended: add_suffix puts the token at the head of the entry's suffix
\* list, so the bag is ordered newest first: after s1, ..., sm have been
\* inserted in that order, draw value r selects s(m-r).
C12_NewestFirst ==
  \A run \in runs : \A p \in Ptrs(statetab[run]) :
    LET e == deref(statetab[run], p)
        m == count(e.suffixes)
    IN  /\ m = Cardinality(Positions(run, e.prefix))
        /\ \A r \in 0..(m - 1) :
             select(e.suffixes, r) = NthInserted(run, e.prefix, m - r)

\* a bag holds two different tokens, so the order of insertion shows
C12_Witness ==
  \E run \in runs : \E p \in Ptrs(statetab[run]) :
    LET e == deref(statetab[run], p)
    IN  Len(e.suffixes) >= 2 /\ e.suffixes[1] # e.suffixes[2]

Stopped ==
  {"StoppedByMissingEntry", "StoppedByEmptyBag", "StoppedBySentinel",
   "StoppedByLengthLimit"}

C13_States ==
  \A run \in runs :
    /\ stop[run] \in {"Running"} \cup Stopped
    /\ stop[run] = "Running" <=> ~done(run)
    /\ stop[run] = "StoppedByLengthLimit" =>
         Len(out[run]) = Max(nwords, 0) /\ i[run] = Max(nwords, 0)
    /\ stop[run] \in Stopped \ {"StoppedByLengthLimit"} =>
         Len(out[run]) < nwords /\ i[run] < nwords
    /\ done(run) /\ Len(out[run]) = Max(nwords, 0) =>
         stop[run] = "StoppedByLengthLimit"

C13_Steps ==
  \A run \in runs :
    /\ stop[run] # "Running" =>
         /\ stop'[run] = stop[run]
         /\ out'[run] = out[run]
         /\ gprefix'[run] = gprefix[run]
         /\ i'[run] = i[run]
         /\ rpos'[run] = rpos[run]
         /\ pc'[run] = pc[run]
    /\ stop[run] = "Running" /\ stop'[run] # "Running" =>
         /\ pc[run] = "generate"
         /\ out'[run] = out[run]
         /\ gprefix'[run] = gprefix[run]
    /\ pc[run] = "generate" /\ Len(out[run]) = Max(nwords, 0)
         /\ pc'[run] # pc[run] => stop'[run] = "StoppedByLengthLimit"

\* C13: the generator starts in Running and ends in exactly one of the four
\* Stopped states; a Stopped state is terminal (no token is emitted, the
\* window and the counters do not change after it, and the stopping step
\* itself emits nothing); StoppedByLengthLimit is reached exactly when
\* max_tokens tokens (none for max_tokens <= 0) have been emitted and no
\* other stop has occurred, the other stops occurring only before that.
C13_StateMachine == [](C13_States) /\ [][C13_Steps]_vars

\* one run has stopped at the length limit after emitting max_tokens tokens
\* while the other run is still inside its loop
C13_Witness ==
  \E r1, r2 \in runs :
    /\ stop[r1] = "StoppedByLengthLimit"
    /\ nwords >= 1
    /\ Len(out[r1]) = nwords
    /\ pc[r2] = "generate"
    /\ i[r2] >= 1

\* C14: every entry of the index has a non-empty suffix bag once the add that
\* created it has completed, so generate never counts n = 0 and never stops
\* by the empty bag.
C14_NoEmptyBag ==
  \A run \in runs :
    /\ \A p \in Ptrs(statetab[run]) :
         count(deref(statetab[run], p).suffixes) >= 1
    /\ stop[run] # "StoppedByEmptyBag"

\* generate has counted the bags of three different entries
C14_Witness ==
  \E run \in runs :
    /\ built(run)
    /\ Cardinality(Ptrs(statetab[run])) >= 3
    /\ rpos[run] >= 3

\* the token the next add step of a run in build is called with
NextToken(run) ==
  IF pos[run] < Len(input) THEN input[pos[run] + 1] ELSE NONWORD

\* C15: an add(window, t) step changes the index only by putting one
\* occurrence of t into the bag of the entry keyed by the window as it was
\* before the step; that entry is created, with the window's value as its
\* key, only if no entry had that key; the keys of the existing entries and
\* the bags of all other entries stay as they were, and no stored key changes
\* when the caller's window slides.
C15_AddStep ==
  \A run \in runs :
    pc[run] = "build" /\ (pos'[run] # pos[run] \/ pc'[run] # pc[run]) =>
      LET old == statetab[run]
          new == statetab'[run]
          P == bprefix[run]
          t == NextToken(run)
      IN  /\ Keys(new) = Keys(old) \cup {P}
          /\ Cardinality(Ptrs(new)) =
               Cardinality(Ptrs(old)) + (IF P \in Keys(old) THEN 0 ELSE 1)
          /\ BagOf(new, P) = <<t>> \o BagOf(old, P)
          /\ \A K \in Keys(old) \ {P} : BagOf(new, K) = BagOf(old, K)
          /\ bprefix'[run] = shift(P, t)

C15_AddFrame == [][C15_AddStep]_vars

\* build has added to an existing entry and has created an entry in a bucket
\* that already held one
C15_Witness ==
  \E run \in runs :
    /\ \E p \in Ptrs(statetab[run]) : p[2] = 2
    /\ \E p \in Ptrs(statetab[run]) : Len(deref(statetab[run], p).suffixes) = 2
    /\ Cardinality(Keys(statetab[run])) >= 5

wAB == <<97, 98>>
wBC == <<98, 99>>

\* C16: hash collisions never merge keys: distinct prefixes of one bucket,
\* such as (ab,c) and (a,bc), are separate entries, lookup of each returns
\* the entry with that very key, and each bag holds the followers of its own
\* key only.
C16_NoMerge ==
  /\ hash(<<wAB, wC>>) = hash(<<wA, wBC>>)
  /\ \A run \in runs :
       LET tab == statetab[run]
       IN  /\ \A P, Q \in Keys(tab) :
                P # Q /\ hash(P) = hash(Q) =>
                  /\ lookup(tab, P, 0).sp # lookup(tab, Q, 0).sp
                  /\ deref(tab, lookup(tab, P, 0).sp).prefix = P
                  /\ \A w \in Tokens :
                       Occ(BagOf(tab, P), w) = Followers(run, P, w)
           /\ input = CollisionCorpus /\ built(run) =>
                /\ BagOf(tab, <<wAB, wC>>) = <<NONWORD, wA>>
                /\ BagOf(tab, <<wA, wBC>>) = <<wAB>>

\* (ab,c) and (a,bc) are chained in one bucket and (ab,c), the second of the
\* chain, has been found again by a later add
C16_Witness ==
  \E run \in runs :
    /\ lookup(statetab[run], <<wAB, wC>>, 0).sp # NULL
    /\ lookup(statetab[run], <<wA, wBC>>, 0).sp # NULL
    /\ lookup(statetab[run], <<wAB, wC>>, 0).sp[1]
         = lookup(statetab[run], <<wA, wBC>>, 0).sp[1]
    /\ Len(BagOf(statetab[run], <<wAB, wC>>)) = 2

\* C17: after a complete build every window the generator reaches (the
\* all-sentinel window and every window obtained by sliding in an emitted
\* token) has an entry in the index: lookup never misses during generation and
\* generate never stops by a missing entry.
C17_NoMissingEntry ==
  \A run \in runs :
    /\ stop[run] # "StoppedByMissingEntry"
    /\ built(run) =>
         /\ gprefix[run] \in Keys(statetab[run])
         /\ lookup(statetab[run], gprefix[run], 0).sp # NULL

\* generate is inside its loop after two emitted tokens, at a window of two
\* real tokens
C17_Witness ==
  \E run \in runs :
    /\ pc[run] = "generate"
    /\ Len(out[run]) = 2
    /\ gprefix[run][1] # NONWORD
    /\ gprefix[run] \in Keys(statetab[run])

\* the runs of NPREF + 1 consecutive tokens of a sequence padded in front
\* with NPREF sentinels
Grams(seq) ==
  {SubSeq(startPrefix \o seq, j, j + NPREF) : j \in 1..Len(seq)}

\* C18: generated text is a walk through the training text: every emitted
\* token is a token of the training stream, and every run of N+1 consecutive
\* tokens of the sentinel-padded output occurs as N+1 consecutive tokens of
\* the sentinel-padded training stream.
C18_WalkThroughTraining ==
  \A run \in runs :
    /\ \A k \in 1..Len(out[run]) :
         \E j \in 1..Len(input) : out[run][k] = input[j]
    /\ Grams(out[run]) \subseteq Grams(input)

\* three tokens have been emitted, one of them chosen by a draw other than 0
\* at a window with more than one suffix
C18_Witness ==
  \E run \in runs :
    /\ Len(out[run]) >= 3
    /\ \E k \in 1..Len(draws) : draws[k] # 0
    /\ Len(BagOf(statetab[run], gprefix[run])) >= 2

====
